---- MODULE Spec2Model ----
(***************************************************************************)
(* Model of the session auto-titler (session-titler.ts) and of the parts   *)
(* of lib.ts it relies on.                                                 *)
(*                                                                         *)
(* Conventions                                                             *)
(*   - a JavaScript string is a sequence of one-character strings, so that *)
(*     trim(), slice() and length are computed, not assumed;               *)
(*   - an optional field is None or Some(v);                               *)
(*   - a timestamp string is a record DateStr: kind "iso" carries the      *)
(*     instant in ms, kinds "empty" and "junk" are strings Date cannot     *)
(*     parse.                                                              *)
(***************************************************************************)
EXTENDS Integers, Sequences, FiniteSets, TLC

VARIABLES
    call,          \* the pure function applied last, its argument and result
    projectsDir,   \* whether readdir of CONFIG.projectsDir succeeds
    disk,          \* project folder -> content of its sessions-index.json
    clock,         \* the wall clock as last read, ms
    pc,            \* position of the titler process
    dryRun,        \* argument of runOnce
    indexFiles,    \* result of findSessionsIndex
    fileIdx,       \* position of runOnce's loop in indexFiles
    index,         \* processIndexFile: the parsed index object (mutated in place)
    readSnap,      \* history: the index object exactly as parsed by the last read
    toProcess,     \* processIndexFile: candidates, as positions in index.entries
    candIdx,       \* position of processIndexFile's loop in toProcess
    updatedCount,  \* processIndexFile: updatedCount
    totalUpdated,  \* runOnce: totalUpdated
    inflight,      \* the excerpt handed to generateTitle while it is awaited
    reported,      \* the total printed by runOnce's last line
    hist           \* history of the current run (calls, writes, outcomes)

vars == << call, projectsDir, disk, clock, pc, dryRun, indexFiles, fileIdx, index, readSnap,
           toProcess, candIdx, updatedCount, totalUpdated, inflight, reported,
           hist >>

runVars == << projectsDir, disk, clock, pc, dryRun, indexFiles, fileIdx, index, readSnap,
              toProcess, candIdx, updatedCount, totalUpdated, inflight,
              reported, hist >>

(***************************************************************************)
(* Values                                                                  *)
(***************************************************************************)
None == [has |-> FALSE]

Some(v) == [has |-> TRUE, val |-> v]

WhiteSpace == {" ", "\t", "\n"}

RECURSIVE TrimStart(_)
TrimStart(s) ==
    IF s # << >> /\ Head(s) \in WhiteSpace THEN TrimStart(Tail(s)) ELSE s

RECURSIVE TrimEnd(_)
TrimEnd(s) ==
    IF s # << >> /\ s[Len(s)] \in WhiteSpace
    THEN TrimEnd(SubSeq(s, 1, Len(s) - 1))
    ELSE s

\* String.prototype.trim
Trim(s) == TrimEnd(TrimStart(s))

\* JavaScript truthiness of a string: the empty string is falsy
Truthy(s) == s # << >>

\* truthiness of an optional string field: undefined and "" are falsy
TruthyOpt(o) == o.has /\ Truthy(o.val)

\* a field that is present and no string (a number, an array, an object)
NotAString == [has |-> TRUE, val |-> << >>, str |-> FALSE]

\* typeof x === "string" for a field that is present
IsString(o) == "str" \notin DOMAIN o

Iso(ms) == [kind |-> "iso", ms |-> ms]

EmptyDate == [kind |-> "empty", ms |-> 0]

JunkDate == [kind |-> "junk", ms |-> 0]

NaN == [nan |-> TRUE, v |-> 0]

\* new Date(s).getTime(): NaN for a string that is no date
GetTime(d) == IF d.kind = "iso" THEN [nan |-> FALSE, v |-> d.ms] ELSE NaN

\* the JavaScript comparison a > b on numbers: false when either is NaN
NumGt(a, b) == ~a.nan /\ ~b.nan /\ a.v > b.v

NumGe(a, b) == ~a.nan /\ ~b.nan /\ a.v >= b.v

\* new Date(ms).toISOString()
ToISOString(ms) == Iso(ms)

\* truthiness of an optional timestamp string
TruthyDate(o) == o.has /\ o.val.kind # "empty"

NoPrompt == << "N", "o", " ", "p", "r", "o", "m", "p", "t" >>

MinMessages == 3

(***************************************************************************)
(* Eligibility policy                                                      *)
(***************************************************************************)
NeedsRetitling_NotStrict(entry) ==
    IF ~TruthyOpt(entry.customTitle) THEN FALSE
    ELSE IF ~TruthyDate(entry.titledAt) THEN FALSE
    ELSE NumGe(GetTime(entry.modified), GetTime(entry.titledAt.val))

NeedsRetitling_Reversed(entry) ==
    IF ~TruthyOpt(entry.customTitle) THEN FALSE
    ELSE IF ~TruthyDate(entry.titledAt) THEN FALSE
    ELSE NumGt(GetTime(entry.titledAt.val), GetTime(entry.modified))

NeedsRetitling(entry) ==
    IF ~TruthyOpt(entry.customTitle) THEN FALSE
    ELSE IF ~TruthyDate(entry.titledAt) THEN FALSE
    ELSE NumGt(GetTime(entry.modified), GetTime(entry.titledAt.val))

ShouldProcessSession_AnyTitle(entry) ==
    IF ~Truthy(Trim(entry.firstPrompt)) \/ entry.firstPrompt = NoPrompt
    THEN FALSE
    ELSE IF entry.messageCount < MinMessages THEN FALSE
    ELSE IF ~entry.titledAt.has THEN TRUE
    ELSE IF NeedsRetitling(entry) THEN TRUE
    ELSE FALSE

ShouldProcessSession_OffByOne(entry) ==
    IF ~Truthy(Trim(entry.firstPrompt)) \/ entry.firstPrompt = NoPrompt
    THEN FALSE
    ELSE IF entry.messageCount <= MinMessages THEN FALSE
    ELSE IF ~TruthyOpt(entry.customTitle) THEN TRUE
    ELSE IF NeedsRetitling(entry) THEN TRUE
    ELSE FALSE

ShouldProcessSession(entry) ==
    IF ~Truthy(Trim(entry.firstPrompt)) \/ entry.firstPrompt = NoPrompt
    THEN FALSE
    ELSE IF entry.messageCount < MinMessages THEN FALSE
    ELSE IF ~TruthyOpt(entry.customTitle) THEN TRUE
    ELSE IF NeedsRetitling(entry) THEN TRUE
    ELSE FALSE

(***************************************************************************)
(* Session logs and the excerpt builder                                    *)
(***************************************************************************)
\* One line of a session log, by what JSON.parse makes of it.
BadLine == [j |-> "bad"]            \* JSON.parse throws (also the empty line)

NullLine == [j |-> "null"]          \* the JSON value null

NumLine == [j |-> "num"]            \* a JSON number, string or boolean

NoContent == [k |-> "none"]         \* no message field, or no content in it

StrContent(s) == [k |-> "str", s |-> s]

ArrContent(blocks) == [k |-> "arr", blocks |-> blocks]

NumContent == [k |-> "num"]         \* content that is neither string nor array

Msg(type, content) == [j |-> "obj", type |-> type, content |-> content]

Block(type, text) == [j |-> "obj", type |-> type, text |-> text]

NullBlock == [j |-> "null"]

Unknown == Msg("unknown", NoContent)

UserSlice == 300

AssistantSlice == 200

Min(a, b) == IF a < b THEN a ELSE b

Max(a, b) == IF a > b THEN a ELSE b

\* s.slice(0, n) for n >= 0
SliceTo(s, n) == SubSeq(s, 1, Min(n, Len(s)))

\* s.slice(k) for any integer k, on strings and arrays alike:
\* a negative k counts from the end, and -0 is 0
SliceFrom(s, k) ==
    LET start == IF k < 0 THEN Max(Len(s) + k, 0) ELSE Min(k, Len(s))
    IN  SubSeq(s, start + 1, Len(s))

UserPrefix == << "U", "s", "e", "r", ":", " " >>

AssistantPrefix ==
    << "A", "s", "s", "i", "s", "t", "a", "n", "t", ":", " " >>

Threw == [threw |-> TRUE, lines |-> << >>]

Returned(lines) == [threw |-> FALSE, lines |-> lines]

RECURSIVE FirstTextBlock_NoBreak(_)
FirstTextBlock_NoBreak(blocks) ==
    IF blocks = << >> THEN Returned(<< >>)
    ELSE LET block == Head(blocks) IN
         IF block.j = "null" THEN Threw
         ELSE IF block.type = "text" /\ ~IsString(block.text) THEN Threw
         ELSE LET rest == FirstTextBlock_NoBreak(Tail(blocks)) IN
              IF rest.threw THEN Threw
              ELSE IF block.type = "text" /\ block.text.has
                      /\ Truthy(Trim(block.text.val))
                   THEN Returned(<< AssistantPrefix
                                    \o SliceTo(block.text.val, AssistantSlice) >>
                                 \o rest.lines)
                   ELSE rest

\* the inner loop of extractConversation over the blocks of one assistant
\* message: the line of the first text block with text, or none
RECURSIVE FirstTextBlock(_)
FirstTextBlock(blocks) ==
    IF blocks = << >> THEN Returned(<< >>)
    ELSE LET block == Head(blocks) IN
         IF block.j = "null" THEN Threw       \* block.type of null
         ELSE IF block.type = "text" /\ ~IsString(block.text)
              THEN Threw                      \* block.text.trim is no function
         ELSE IF block.type = "text" /\ block.text.has
                 /\ Truthy(Trim(block.text.val))
              THEN Returned(<< AssistantPrefix
                               \o SliceTo(block.text.val, AssistantSlice) >>)
              ELSE FirstTextBlock(Tail(blocks))

MessageLines_Trimmed(msg) ==
    IF msg.j = "null" THEN Threw
    ELSE IF msg.j # "obj" THEN Returned(<< >>)
    ELSE IF msg.type = "user"
         THEN IF msg.content.k = "str" /\ Truthy(Trim(msg.content.s))
              THEN Returned(<< UserPrefix
                               \o SliceTo(Trim(msg.content.s), UserSlice) >>)
              ELSE Returned(<< >>)
    ELSE IF msg.type = "assistant"
         THEN IF msg.content.k = "arr"
              THEN FirstTextBlock(msg.content.blocks)
              ELSE Returned(<< >>)
    ELSE Returned(<< >>)

\* what one message contributes
MessageLines(msg) ==
    IF msg.j = "null" THEN Threw              \* msg.type of null
    ELSE IF msg.j # "obj" THEN Returned(<< >>)
    ELSE IF msg.type = "user"
         THEN IF msg.content.k = "str" /\ Truthy(Trim(msg.content.s))
              THEN Returned(<< UserPrefix
                               \o SliceTo(msg.content.s, UserSlice) >>)
              ELSE Returned(<< >>)
    ELSE IF msg.type = "assistant"
         THEN IF msg.content.k = "arr"
              THEN FirstTextBlock(msg.content.blocks)
              ELSE Returned(<< >>)
    ELSE Returned(<< >>)

RECURSIVE ExtractConversation_Reversed(_)
ExtractConversation_Reversed(messages) ==
    IF messages = << >> THEN Returned(<< >>)
    ELSE LET first == MessageLines(Head(messages)) IN
         IF first.threw THEN Threw
         ELSE LET rest == ExtractConversation_Reversed(Tail(messages)) IN
              IF rest.threw THEN Threw
              ELSE Returned(rest.lines \o first.lines)

\* extractConversation: the lines, or the exception that leaves it
RECURSIVE ExtractConversation(_)
ExtractConversation(messages) ==
    IF messages = << >> THEN Returned(<< >>)
    ELSE LET first == MessageLines(Head(messages)) IN
         IF first.threw THEN Threw
         ELSE LET rest == ExtractConversation(Tail(messages)) IN
              IF rest.threw THEN Threw
              ELSE Returned(first.lines \o rest.lines)

\* A log file: absent, or the lines of its content. A line is blank (empty
\* or white space only) or carries text.
NoLog == [exists |-> FALSE, lines |-> << >>]

Log(lines) == [exists |-> TRUE, lines |-> lines]

BlankLine == [j |-> "blank"]

RECURSIVE DropBlankStart(_)
DropBlankStart(ls) ==
    IF ls # << >> /\ Head(ls).j = "blank" THEN DropBlankStart(Tail(ls)) ELSE ls

RECURSIVE DropBlankEnd(_)
DropBlankEnd(ls) ==
    IF ls # << >> /\ ls[Len(ls)].j = "blank"
    THEN DropBlankEnd(SubSeq(ls, 1, Len(ls) - 1))
    ELSE ls

\* content.trim().split("\n"): blank lines at both ends go, and what is
\* left is at least one (possibly empty) line
TrimSplit(ls) ==
    LET t == DropBlankEnd(DropBlankStart(ls))
    IN  IF t = << >> THEN << BlankLine >> ELSE t

\* JSON.parse of one line, with the catch of loadSessionMessages
ParseLine(line) == IF line.j \in {"bad", "blank"} THEN Unknown ELSE line

LoadSessionMessages_SkipBad(file) ==
    IF ~file.exists THEN << >>
    ELSE SelectSeq(TrimSplit(file.lines),
                   LAMBDA line : line.j \notin {"bad", "blank"})

\* loadSessionMessages: readFile, trim, split and the parse of every line;
\* a file that cannot be read gives the empty list
LoadSessionMessages(file) ==
    IF ~file.exists THEN << >>
    ELSE LET ls == TrimSplit(file.lines)
         IN  [i \in 1..Len(ls) |-> ParseLine(ls[i])]

RECURSIVE Join(_)
\* conversation.join("\n")
Join(ss) ==
    IF ss = << >> THEN << >>
    ELSE IF Len(ss) = 1 THEN ss[1]
    ELSE ss[1] \o << "\n" >> \o Join(Tail(ss))

Ellipsis == << ".", ".", "." >>

PrepareConversationText(conversation, maxChars, numMessages) ==
    LET recentConversation == SliceFrom(conversation, 0 - numMessages)
        combined == Join(recentConversation)
    IN  IF Len(combined) > maxChars
        THEN Ellipsis \o SliceFrom(combined, 0 - (maxChars - 3))
        ELSE combined

ConfigMaxChars == 4000

ConfigNumMessages == 10

(***************************************************************************)
(* Title generator                                                         *)
(***************************************************************************)
\* What the endpoint can answer to one POST.
NetError == [r |-> "neterr"]        \* fetch rejects

HttpError == [r |-> "http"]         \* response.ok is false

BadBody == [r |-> "badbody"]        \* response.json() rejects

NoChoice == [r |-> "nochoice"]      \* no choices[0].message in the body

\* a body with choices[0].message = {content, reasoning_content}
Answer(content, reasoning) ==
    [r |-> "answer", content |-> content, reasoning |-> reasoning]

\* x?.trim() on an optional string
TrimOpt(o) == IF o.has THEN Some(Trim(o.val)) ELSE None

GenerateTitle_NoTrim(conversation, response) ==
    IF response.r \in {"neterr", "http", "badbody", "nochoice"} THEN None
    ELSE IF ~IsString(response.content) THEN None
    ELSE LET c == TrimOpt(response.content) IN
         IF TruthyOpt(c) THEN response.content
         ELSE IF ~IsString(response.reasoning) THEN None
         ELSE LET r == TrimOpt(response.reasoning) IN
              IF TruthyOpt(r) THEN response.reasoning ELSE None

\* generateTitle: null (None) or the title. Every failure inside the try
\* block ends in the catch: fetch or response.json() rejecting, and
\* .trim of a field that is no string
GenerateTitle(conversation, response) ==
    IF response.r \in {"neterr", "http", "badbody", "nochoice"} THEN None
    ELSE IF ~IsString(response.content) THEN None
    ELSE LET c == TrimOpt(response.content) IN
         IF TruthyOpt(c) THEN c
         ELSE IF ~IsString(response.reasoning) THEN None
         ELSE LET r == TrimOpt(response.reasoning) IN
              IF TruthyOpt(r) THEN r ELSE None

(***************************************************************************)
(* Index files                                                             *)
(***************************************************************************)
NoIndex == [version |-> 0, entries |-> << >>]

NoFile == [kind |-> "nofile", fmt |-> "none", index |-> NoIndex]

\* a file whose content JSON.parse rejects
GarbageFile == [kind |-> "garbage", fmt |-> "none", index |-> NoIndex]

\* a file holding an index object, in some layout of the text
JsonFile(fmt, idx) == [kind |-> "json", fmt |-> fmt, index |-> idx]

\* JSON.stringify(index, null, 2): every entry and field, two-space layout
Stringify_OnlyTitled(idx) ==
    JsonFile("pretty",
             [idx EXCEPT !.entries =
                 SelectSeq(idx.entries, LAMBDA e : e.titledAt.has)])

Stringify(idx) == JsonFile("pretty", idx)

\* positions of the entries that pass the filter, in index order
RECURSIVE FilterPositions(_, _)
FilterPositions(entries, i) ==
    IF i > Len(entries) THEN << >>
    ELSE IF ShouldProcessSession(entries[i])
         THEN << i >> \o FilterPositions(entries, i + 1)
         ELSE FilterPositions(entries, i + 1)

(***************************************************************************)
(* The world the titler runs in                                            *)
(***************************************************************************)
MaxRuns == 2        \* invocations of runOnce

MaxExt == 1         \* writes to an index file by the assistant

MaxTime == 2        \* last instant of the clock

MaxEntries == 3     \* entries an index file can grow to

\* the project folders under projectsDir, in readdir order
ProjectDirs == << "-home-u-a", "-home-u-b" >>

Projects == {ProjectDirs[i] : i \in 1..Len(ProjectDirs)}

Str(c) == << c >>

Hi == << "h", "i" >>

\* the session logs on disk, by path
LogPaths == {"missing", "empty", "chat", "quiet", "junk", "broken"}

LogFiles ==
    [path \in LogPaths |->
        CASE path = "missing" -> NoLog
          [] path = "empty"   -> Log(<< >>)
          [] path = "chat"    ->
                Log(<< Msg("summary", NoContent),
                       Msg("user", StrContent(Hi)),
                       BadLine,
                       Msg("assistant",
                           ArrContent(<< Block("tool_use", None),
                                         Block("text", Some(<< "o", "k" >>)),
                                         Block("text", Some(Hi)) >>)),
                       BlankLine >>)
          [] path = "quiet"   ->
                Log(<< Msg("summary", NoContent),
                       Msg("user", StrContent(<< " " >>)),
                       Msg("user", NumContent),
                       NumLine,
                       Msg("assistant",
                           ArrContent(<< Block("tool_use", None) >>)) >>)
          [] path = "junk"    -> Log(<< BadLine, BadLine >>)
          [] path = "broken"  ->
                Log(<< Msg("user", StrContent(Hi)), NullLine >>)]

Entry(id, prompt, count, modified, title, titledAt, path) ==
    [sessionId |-> id, firstPrompt |-> prompt, projectPath |-> "/home/u/p",
     created |-> Iso(0), modified |-> modified, messageCount |-> count,
     fullPath |-> path, customTitle |-> title, titledAt |-> titledAt]

Old == Str("L")

\* a title of unknown origin: customTitle without titledAt
LegacyEntry == Entry("legacy", Hi, 5, Iso(1), Some(Old), None, "chat")

UntitledEntry == Entry("fresh", Hi, 3, Iso(0), None, None, "chat")

\* titled at 0, modified at 1
StaleEntry == Entry("stale", Hi, 4, Iso(1), Some(Old), Some(Iso(0)), "chat")

\* titled at 1, modified at 0
TitledEntry == Entry("titled", Hi, 4, Iso(0), Some(Old), Some(Iso(1)), "chat")

ShortEntry == Entry("short", Hi, 2, Iso(0), None, None, "chat")

QuietEntry == Entry("quiet", Hi, 3, Iso(0), None, None, "quiet")

LostLogEntry == Entry("lostlog", Hi, 3, Iso(0), None, None, "missing")

\* modified later than any reading of the clock before MaxTime
AheadEntry == Entry("ahead", Hi, 3, Iso(MaxTime), None, None, "chat")

\* customTitle is the empty string
BlankTitleEntry == Entry("blank", Hi, 3, Iso(0), Some(<< >>), None, "chat")

BrokenEntry == Entry("broken", Hi, 3, Iso(0), None, None, "broken")

Index(entries) == [version |-> 1, entries |-> entries]

MixedFile ==
    JsonFile("compact", Index(<< LegacyEntry, UntitledEntry, StaleEntry >>))

SettledFile ==
    JsonFile("compact", Index(<< QuietEntry, TitledEntry, ShortEntry >>))

BlankTitleFile ==
    JsonFile("compact", Index(<< BlankTitleEntry, LostLogEntry >>))

BrokenLogFile ==
    JsonFile("compact", Index(<< BrokenEntry, UntitledEntry >>))

\* a file the assistant can still append to
PairFile == JsonFile("compact", Index(<< UntitledEntry, StaleEntry >>))

\* the index files a project folder may start with
FileChoices ==
    { NoFile, GarbageFile, MixedFile, SettledFile, BlankTitleFile,
      BrokenLogFile }

\* what the endpoint may answer
OptStrings == { None, Some(<< >>), Some(<< " " >>), Some(<< " ", "A", " " >>) }

Fields == OptStrings \cup { NotAString }

Responses ==
    { NetError, HttpError, BadBody, NoChoice }
    \cup { Answer(c, r) : c \in Fields, r \in Fields }

NoCall == [op |-> "none"]

NoHist ==
    [runs |-> 0, ext |-> 0, calls |-> 0, writes |-> 0, last |-> "none",
     cause |-> "none", updated |-> {}, nulls |-> {}, prevNulls |-> {},
     raced |-> FALSE, ahead |-> FALSE, written |-> {},
     open |-> 0, called |-> {}, saved |-> {}, after |-> "none"]

\* the titler before its first run, over the index files d under a
\* projects directory that is "readable" or "unreadable"
Idle(root, d) ==
    /\ projectsDir = root
    /\ disk = d
    /\ clock = 1
    /\ pc = "idle"
    /\ dryRun = FALSE
    /\ indexFiles = << >>
    /\ fileIdx = 1
    /\ index = NoIndex
    /\ readSnap = NoIndex
    /\ toProcess = << >>
    /\ candIdx = 1
    /\ updatedCount = 0
    /\ totalUpdated = 0
    /\ inflight = None
    /\ reported = None
    /\ hist = NoHist

RunIdle(d) == Idle("readable", d)

\* one index file, in the first project folder
SharedFiles ==
    [p \in Projects |-> IF p = ProjectDirs[1] THEN PairFile ELSE NoFile]

Init ==
    /\ call = NoCall
    /\ \E root \in {"readable", "unreadable"}, d \in [Projects -> FileChoices] :
          Idle(root, d)

(***************************************************************************)
(* runOnce and what it calls                                               *)
(***************************************************************************)
FindSessionsIndex_IgnoreRoot(root, d) ==
    SelectSeq(ProjectDirs, LAMBDA p : d[p].kind # "nofile")

\* findSessionsIndex: the folders whose index file can be read; none when
\* readdir of the projects directory fails
FindSessionsIndex(root, d) ==
    IF root # "readable" THEN << >>
    ELSE SelectSeq(ProjectDirs, LAMBDA p : d[p].kind # "nofile")

SessionResult(kind, text) == [kind |-> kind, text |-> text]

ProcessSessionStart_IgnoreDryRun(entry, dry) ==
    IF ~ShouldProcessSession(entry) THEN SessionResult("skip", << >>)
    ELSE LET conversation == ExtractConversation(
                                 LoadSessionMessages(LogFiles[entry.fullPath]))
         IN  IF conversation.threw THEN SessionResult("throw", << >>)
             ELSE IF conversation.lines = << >>
                  THEN SessionResult("empty", << >>)
             ELSE SessionResult("call",
                      PrepareConversationText(conversation.lines,
                                              ConfigMaxChars,
                                              ConfigNumMessages))

\* processSession up to its await of generateTitle: the candidate is
\* skipped ("skip", "empty", "dry"), an exception leaves the function
\* ("throw"), or generateTitle is called with the excerpt ("call")
ProcessSessionStart(entry, dry) ==
    IF ~ShouldProcessSession(entry) THEN SessionResult("skip", << >>)
    ELSE LET conversation == ExtractConversation(
                                 LoadSessionMessages(LogFiles[entry.fullPath]))
         IN  IF conversation.threw THEN SessionResult("throw", << >>)
             ELSE IF conversation.lines = << >>
                  THEN SessionResult("empty", << >>)
             ELSE IF dry THEN SessionResult("dry", << >>)
             ELSE SessionResult("call",
                      PrepareConversationText(conversation.lines,
                                              ConfigMaxChars,
                                              ConfigNumMessages))

ApplyResult_TitleOnly(entry, title, titledAt) ==
    [entry EXCEPT !.customTitle = Some(title)]

ApplyResult_Touch(entry, title, titledAt) ==
    [entry EXCEPT !.customTitle = Some(title), !.titledAt = Some(titledAt),
                  !.modified = titledAt]

\* the mutation of the entry in processIndexFile
ApplyResult(entry, title, titledAt) ==
    [entry EXCEPT !.customTitle = Some(title), !.titledAt = Some(titledAt)]

CurrentDir == indexFiles[fileIdx]

\* what a reading of the clock can give: time does not run backwards
Instants == clock..MaxTime

\* the clock reading taken at the titling was not before modified
TitledInTime(entry) ==
    entry.titledAt.has
        /\ ~(entry.modified.kind = "iso" /\ entry.titledAt.val.kind = "iso"
               /\ entry.modified.ms > entry.titledAt.val.ms)

\* some index file holds a titled entry whose modified is later than its
\* titledAt
TitledAhead(d) ==
    \E p \in Projects :
        /\ d[p].kind = "json"
        /\ \E i \in 1..Len(d[p].index.entries) :
              /\ d[p].index.entries[i].titledAt.has
              /\ ~TitledInTime(d[p].index.entries[i])

\* runOnce is invoked, as invocation number n, and finds the index files
StartRun(d, n) ==
    /\ pc \in {"idle", "done", "crashed"}
    /\ dryRun' = d
    /\ indexFiles' = FindSessionsIndex(projectsDir, disk)
    /\ fileIdx' = 1
    /\ totalUpdated' = 0
    /\ pc' = "files"
    /\ index' = NoIndex
    /\ readSnap' = NoIndex
    /\ toProcess' = << >>
    /\ candIdx' = 1
    /\ updatedCount' = 0
    /\ reported' = None
    /\ hist' = [hist EXCEPT !.runs = n, !.calls = 0, !.writes = 0,
                            !.last = "none",
                            !.cause = IF projectsDir # "readable"
                                      THEN "root" ELSE "none",
                            !.updated = {}, !.nulls = {},
                            !.prevNulls = hist.nulls, !.raced = FALSE,
                            !.ahead = TitledAhead(disk), !.written = {},
                            !.open = 0, !.called = {},
                            !.after = IF pc = "done" /\ ~dryRun
                                         /\ hist.nulls = {}
                                      THEN "full" ELSE "other"]
    /\ UNCHANGED << call, projectsDir, disk, clock, inflight >>

\* one of the first MaxRuns invocations
RunOnce(d) == hist.runs < MaxRuns /\ StartRun(d, hist.runs + 1)

\* an invocation after those, no longer counted
RunAgain(d) == hist.runs = MaxRuns /\ StartRun(d, MaxRuns)

\* processIndexFile: readFile and JSON.parse, then the filter
ReadIndexFile ==
    /\ pc = "files"
    /\ fileIdx <= Len(indexFiles)
    /\ LET file == disk[CurrentDir] IN
       IF file.kind # "json"
       THEN /\ pc' = "crashed"
            /\ hist' = [hist EXCEPT !.cause = "index"]
            /\ UNCHANGED << index, readSnap, toProcess, candIdx,
                            updatedCount >>
       ELSE /\ index' = file.index
            /\ readSnap' = file.index
            /\ toProcess' = FilterPositions(file.index.entries, 1)
            /\ candIdx' = 1
            /\ updatedCount' = 0
            /\ pc' = "cands"
            /\ hist' = [hist EXCEPT !.updated = {}]
    /\ UNCHANGED << call, projectsDir, disk, clock, dryRun, indexFiles, fileIdx,
                    totalUpdated, inflight, reported >>

\* a variant that starts generateTitle and goes on to the next candidate
\* without awaiting it
ProcessSession_NoAwait ==
    /\ pc = "cands"
    /\ candIdx <= Len(toProcess)
    /\ LET entry == index.entries[toProcess[candIdx]]
           r == ProcessSessionStart(entry, dryRun)
       IN  CASE r.kind = "throw" ->
                  /\ pc' = "crashed"
                  /\ hist' = [hist EXCEPT !.cause = "session"]
                  /\ UNCHANGED << candIdx, inflight >>
             [] r.kind = "call" ->
                  /\ pc' = "cands"
                  /\ inflight' = Some(r.text)
                  /\ hist' = [hist EXCEPT
                         !.calls = @ + 1, !.open = @ + 1,
                         !.called = @ \cup {<< CurrentDir,
                                                toProcess[candIdx] >>}]
                  /\ candIdx' = candIdx + 1
             [] OTHER ->
                  /\ pc' = "cands"
                  /\ candIdx' = candIdx + 1
                  /\ hist' = [hist EXCEPT !.last = r.kind]
                  /\ UNCHANGED inflight
    /\ UNCHANGED << call, projectsDir, disk, clock, dryRun, indexFiles, fileIdx, index,
                    readSnap, toProcess, updatedCount, totalUpdated,
                    reported >>

\* processSession for the next candidate, up to the call of generateTitle
ProcessSession ==
    /\ pc = "cands"
    /\ candIdx <= Len(toProcess)
    /\ LET entry == index.entries[toProcess[candIdx]]
           r == ProcessSessionStart(entry, dryRun)
       IN  CASE r.kind = "throw" ->
                  /\ pc' = "crashed"
                  /\ hist' = [hist EXCEPT !.cause = "session"]
                  /\ UNCHANGED << candIdx, inflight >>
             [] r.kind = "call" ->
                  /\ pc' = "await"
                  /\ inflight' = Some(r.text)
                  /\ hist' = [hist EXCEPT
                         !.calls = @ + 1, !.open = @ + 1,
                         !.called = @ \cup {<< CurrentDir,
                                                toProcess[candIdx] >>}]
                  /\ UNCHANGED candIdx
             [] OTHER ->
                  /\ pc' = "cands"
                  /\ candIdx' = candIdx + 1
                  /\ hist' = [hist EXCEPT !.last = r.kind]
                  /\ UNCHANGED inflight
    /\ UNCHANGED << call, projectsDir, disk, clock, dryRun, indexFiles, fileIdx, index,
                    readSnap, toProcess, updatedCount, totalUpdated,
                    reported >>

TitleResponse_DefaultOnNull(response, now) ==
    /\ pc = "await"
    /\ now \in Instants
    /\ clock' = now
    /\ LET title == GenerateTitle(inflight.val, response)
           pos == toProcess[candIdx]
       IN  IF ~TruthyOpt(title)
           THEN /\ index' = [index EXCEPT !.entries[pos].customTitle =
                                Some(index.entries[pos].firstPrompt)]
                /\ hist' = [hist EXCEPT
                      !.last = "null", !.open = @ - 1,
                      !.nulls = @ \cup {<< CurrentDir,
                                           index.entries[pos].sessionId >>}]
                /\ UNCHANGED updatedCount
           ELSE /\ index' = [index EXCEPT !.entries[pos] =
                                ApplyResult(@, title.val, ToISOString(now))]
                /\ updatedCount' = updatedCount + 1
                /\ hist' = [hist EXCEPT !.last = "updated", !.open = @ - 1,
                                        !.updated = @ \cup {pos}]
    /\ pc' = "cands"
    /\ candIdx' = candIdx + 1
    /\ inflight' = None
    /\ UNCHANGED << call, projectsDir, disk, dryRun, indexFiles, fileIdx, readSnap,
                    toProcess, totalUpdated, reported >>

\* a variant that tries the candidate again when generateTitle gave null
TitleResponse_RetryOnNull(response, now) ==
    /\ pc = "await"
    /\ now \in Instants
    /\ clock' = now
    /\ LET title == GenerateTitle(inflight.val, response)
           pos == toProcess[candIdx]
       IN  IF ~TruthyOpt(title)
           THEN /\ hist' = [hist EXCEPT
                      !.last = "null", !.open = @ - 1,
                      !.nulls = @ \cup {<< CurrentDir,
                                           index.entries[pos].sessionId >>}]
                /\ UNCHANGED << index, updatedCount, candIdx >>
           ELSE /\ index' = [index EXCEPT !.entries[pos] =
                                ApplyResult(@, title.val, ToISOString(now))]
                /\ updatedCount' = updatedCount + 1
                /\ candIdx' = candIdx + 1
                /\ hist' = [hist EXCEPT !.last = "updated", !.open = @ - 1,
                                        !.updated = @ \cup {pos}]
    /\ pc' = "cands"
    /\ inflight' = None
    /\ UNCHANGED << call, projectsDir, disk, dryRun, indexFiles, fileIdx, readSnap,
                    toProcess, totalUpdated, reported >>

\* a variant that writes the file after each updated entry
TitleResponse_WritePerEntry(response, now) ==
    /\ pc = "await"
    /\ now \in Instants
    /\ clock' = now
    /\ LET title == GenerateTitle(inflight.val, response)
           pos == toProcess[candIdx]
       IN  IF ~TruthyOpt(title)
           THEN /\ hist' = [hist EXCEPT
                      !.last = "null", !.open = @ - 1,
                      !.nulls = @ \cup {<< CurrentDir,
                                           index.entries[pos].sessionId >>}]
                /\ UNCHANGED << index, updatedCount, disk >>
           ELSE /\ index' = [index EXCEPT !.entries[pos] =
                                ApplyResult(@, title.val, ToISOString(now))]
                /\ updatedCount' = updatedCount + 1
                /\ disk' = IF dryRun THEN disk
                           ELSE [disk EXCEPT ![CurrentDir] = Stringify(index')]
                /\ hist' = [hist EXCEPT !.last = "updated", !.open = @ - 1,
                                        !.updated = @ \cup {pos}]
    /\ pc' = "cands"
    /\ candIdx' = candIdx + 1
    /\ inflight' = None
    /\ UNCHANGED << call, projectsDir, dryRun, indexFiles, fileIdx, readSnap,
                    toProcess, totalUpdated, reported >>

\* generateTitle settles; the rest of processSession and the loop body of
\* processIndexFile
TitleResponse(response, now) ==
    /\ pc = "await"
    /\ now \in Instants
    /\ clock' = now
    /\ LET title == GenerateTitle(inflight.val, response)
           pos == toProcess[candIdx]
       IN  IF ~TruthyOpt(title)
           THEN /\ hist' = [hist EXCEPT
                      !.last = "null", !.open = @ - 1,
                      !.nulls = @ \cup {<< CurrentDir,
                                           index.entries[pos].sessionId >>}]
                /\ UNCHANGED << index, updatedCount >>
           ELSE /\ index' = [index EXCEPT !.entries[pos] =
                                ApplyResult(@, title.val, ToISOString(now))]
                /\ updatedCount' = updatedCount + 1
                /\ hist' = [hist EXCEPT !.last = "updated", !.open = @ - 1,
                                        !.updated = @ \cup {pos}]
    /\ pc' = "cands"
    /\ candIdx' = candIdx + 1
    /\ inflight' = None
    /\ UNCHANGED << call, projectsDir, disk, dryRun, indexFiles, fileIdx, readSnap,
                    toProcess, totalUpdated, reported >>

\* the end of processIndexFile: the write, and runOnce's accumulation
FinishIndexFile ==
    /\ pc = "cands"
    /\ candIdx > Len(toProcess)
    /\ IF updatedCount > 0 /\ ~dryRun
       THEN /\ disk' = [disk EXCEPT ![CurrentDir] = Stringify(index)]
            /\ hist' = [hist EXCEPT
                   !.writes = @ + 1, !.last = "write",
                   !.written = @ \cup {CurrentDir},
                   !.saved = @ \cup { << CurrentDir, i, index.entries[i] >> :
                                         i \in hist.updated },
                   !.raced = (disk[CurrentDir].index # readSnap)]
       ELSE /\ UNCHANGED disk
            /\ hist' = [hist EXCEPT !.last = "nowrite"]
    /\ totalUpdated' = totalUpdated + updatedCount
    /\ fileIdx' = fileIdx + 1
    /\ pc' = "files"
    /\ UNCHANGED << call, projectsDir, clock, dryRun, indexFiles, index, readSnap,
                    toProcess, candIdx, updatedCount, inflight, reported >>

\* runOnce after its loop
FinishRun ==
    /\ pc = "files"
    /\ fileIdx > Len(indexFiles)
    /\ pc' = "done"
    /\ reported' = Some(totalUpdated)
    /\ UNCHANGED << call, projectsDir, disk, clock, dryRun, indexFiles, fileIdx, index,
                    readSnap, toProcess, candIdx, updatedCount, totalUpdated,
                    inflight, hist >>

(***************************************************************************)
(* The environment: the assistant, which owns the index files, and time    *)
(***************************************************************************)
NewId(n) == CASE n = 0 -> "new0" [] n = 1 -> "new1" [] OTHER -> "newN"

\* the assistant records a new session
AssistantAppend(p, now) ==
    /\ hist.ext < MaxExt
    /\ now \in Instants
    /\ clock' = now
    /\ disk[p].kind = "json"
    /\ Len(disk[p].index.entries) < MaxEntries
    /\ disk' = [disk EXCEPT ![p] =
           JsonFile("compact",
               [disk[p].index EXCEPT !.entries =
                   Append(@, Entry(NewId(hist.ext), Hi, 3, Iso(now),
                                   None, None, "chat"))])]
    /\ hist' = [hist EXCEPT !.ext = @ + 1]
    /\ UNCHANGED << call, projectsDir, pc, dryRun, indexFiles, fileIdx, index,
                    readSnap, toProcess, candIdx, updatedCount, totalUpdated,
                    inflight, reported >>

\* the assistant records new messages of a session
AssistantTouch(p, i, now) ==
    /\ hist.ext < MaxExt
    /\ now \in Instants
    /\ clock' = now
    /\ disk[p].kind = "json"
    /\ i \in 1..Len(disk[p].index.entries)
    /\ disk' = [disk EXCEPT ![p] =
           JsonFile("compact",
               [disk[p].index EXCEPT
                   !.entries[i].modified = Iso(now),
                   !.entries[i].messageCount = @ + 1])]
    /\ hist' = [hist EXCEPT !.ext = @ + 1]
    /\ UNCHANGED << call, projectsDir, pc, dryRun, indexFiles, fileIdx, index,
                    readSnap, toProcess, candIdx, updatedCount, totalUpdated,
                    inflight, reported >>

Next ==
    \/ \E d \in BOOLEAN : RunOnce(d)
    \/ ReadIndexFile
    \/ ProcessSession
    \/ \E response \in Responses, now \in 0..MaxTime :
           TitleResponse(response, now)
    \/ FinishIndexFile
    \/ FinishRun

\* the titler alone: nothing else writes the index files
Spec == Init /\ [][Next]_vars

Assistant ==
    \/ \E p \in Projects, now \in 0..MaxTime : AssistantAppend(p, now)
    \/ \E p \in Projects, i \in 1..MaxEntries, now \in 0..MaxTime :
           AssistantTouch(p, i, now)

InitShared == call = NoCall /\ RunIdle(SharedFiles)

NextShared == Next \/ Assistant

\* the titler and the assistant, which writes the index files at any time
SpecShared == InitShared /\ [][NextShared]_vars

\* runs that follow one another, over index files that include one with an
\* entry whose modified is ahead of the clock
InitRerun ==
    /\ call = NoCall
    /\ \E d \in [Projects ->
                  { NoFile, MixedFile, SettledFile, BrokenLogFile,
                    JsonFile("compact",
                             Index(<< AheadEntry, UntitledEntry >>)) }] :
          RunIdle(d)

\* the titler alone, run after run
SpecRerun == InitRerun /\ [][Next]_vars

InitForever ==
    /\ call = NoCall
    /\ \E d \in [Projects ->
                  { NoFile, MixedFile, SettledFile, BrokenLogFile }] :
          RunIdle(d)

NextForever == Next \/ \E d \in BOOLEAN : RunAgain(d)

\* a step of a run that has begun: every await of runOnce settles
RunStep ==
    \/ ReadIndexFile
    \/ ProcessSession
    \/ \E response \in Responses, now \in 0..MaxTime :
           TitleResponse(response, now)
    \/ FinishIndexFile
    \/ FinishRun

\* the endpoint answers the call in flight with a title
TitleGiven ==
    /\ pc = "await"
    /\ \E response \in Responses, now \in 0..MaxTime :
          /\ TruthyOpt(GenerateTitle(inflight.val, response))
          /\ TitleResponse(response, now)

\* a run has begun and has neither ended nor thrown: RunStep is enabled
Running == pc \in {"files", "cands", "await"}

\* every run goes on to its end (WF_vars(RunStep), with
\* ENABLED << RunStep >>_vars written as Running), live runs are made again
\* and again, and calls made again and again are answered with a title in
\* the end
Fairness ==
    /\ []<>~Running \/ []<><< RunStep >>_vars
    /\ SF_vars(RunOnce(FALSE) \/ RunAgain(FALSE))
    /\ SF_vars(TitleGiven)

\* the titler alone, invoked for ever
SpecForever == InitForever /\ [][NextForever]_vars /\ Fairness

(***************************************************************************)
(* The eligibility policy applied to one entry                             *)
(***************************************************************************)
PolicyMaxTime == 2      \* instants of the timestamps tried

PolicyMaxCount == 4     \* message counts tried

PolicyPrompts ==
    { << >>, << " " >>, << " ", "\t" >>, NoPrompt, << " " >> \o NoPrompt,
      Hi, << " ", "h" >> }

PolicyDates == { EmptyDate, JunkDate } \cup { Iso(t) : t \in 0..PolicyMaxTime }

PolicyEntries ==
    { Entry("e", prompt, count, modified, title, titledAt, "chat") :
        prompt \in PolicyPrompts,
        count \in 0..PolicyMaxCount,
        modified \in PolicyDates \ { EmptyDate },
        title \in { None, Some(<< >>), Some(Old) },
        titledAt \in { None } \cup { Some(d) : d \in PolicyDates } }

InitPolicy ==
    /\ call \in { [op |-> "arg", arg |-> e, ret |-> FALSE] : e \in PolicyEntries }
    /\ RunIdle(SharedFiles)

CallNeedsRetitling ==
    /\ call.op = "arg"
    /\ call' = [call EXCEPT !.op = "needsRetitling",
                            !.ret = NeedsRetitling(call.arg)]
    /\ UNCHANGED runVars

CallShouldProcessSession ==
    /\ call.op = "arg"
    /\ call' = [call EXCEPT !.op = "shouldProcessSession",
                            !.ret = ShouldProcessSession(call.arg)]
    /\ UNCHANGED runVars

NextPolicy == CallNeedsRetitling \/ CallShouldProcessSession

SpecPolicy == InitPolicy /\ [][NextPolicy]_vars

\* the instant a timestamp string names is strictly later than another's;
\* a string that names no instant is later than nothing
Later(a, b) == a.kind = "iso" /\ b.kind = "iso" /\ a.ms > b.ms

PromptOk(entry) ==
    /\ Trim(entry.firstPrompt) # << >>
    /\ entry.firstPrompt # NoPrompt

\* C1 as stated: shouldProcessSession is true exactly when firstPrompt is
\* non-empty after trimming and not "No prompt", messageCount >= 3, and
\* customTitle is absent or needsRetitling is true.
C1_Original ==
    call.op = "shouldProcessSession" =>
        (call.ret <=>
            /\ PromptOk(call.arg)
            /\ call.arg.messageCount >= 3
            /\ (~call.arg.customTitle.has \/ NeedsRetitling(call.arg)))

\* C1 amended: shouldProcessSession is true exactly when firstPrompt is
\* non-empty after trimming and not "No prompt", messageCount >= 3, and
\* customTitle is absent or the empty string, or needsRetitling is true.
C1_ShouldProcess ==
    call.op = "shouldProcessSession" =>
        (call.ret <=>
            /\ PromptOk(call.arg)
            /\ call.arg.messageCount >= 3
            /\ \/ ~call.arg.customTitle.has
               \/ call.arg.customTitle.val = << >>
               \/ NeedsRetitling(call.arg))

\* an entry at the boundary of three messages whose customTitle is the
\* empty string has been found eligible
C1_Witness ==
    /\ call.op = "shouldProcessSession"
    /\ call.ret
    /\ call.arg.messageCount = 3
    /\ call.arg.customTitle = Some(<< >>)

\* C2 as stated: needsRetitling is false whenever customTitle or titledAt is
\* absent, and otherwise true iff modified is strictly later than titledAt.
C2_Original ==
    call.op = "needsRetitling" =>
        (call.ret <=>
            /\ call.arg.customTitle.has
            /\ call.arg.titledAt.has
            /\ Later(call.arg.modified, call.arg.titledAt.val))

\* C2 amended: needsRetitling is false whenever customTitle is absent or
\* the empty string or titledAt is absent, and otherwise true iff modified
\* is strictly later than titledAt (equal timestamps give false).
C2_NeedsRetitling ==
    call.op = "needsRetitling" =>
        (call.ret <=>
            /\ call.arg.customTitle.has
            /\ call.arg.customTitle.val # << >>
            /\ call.arg.titledAt.has
            /\ Later(call.arg.modified, call.arg.titledAt.val))

\* a titled entry modified one instant after it was titled has been found
\* to need a new title
C2_Witness ==
    /\ call.op = "needsRetitling"
    /\ call.ret
    /\ call.arg.titledAt.has
    /\ call.arg.modified.ms = call.arg.titledAt.val.ms + 1

(***************************************************************************)
(* Properties of the runs                                                  *)
(***************************************************************************)
Range(f) == {f[i] : i \in DOMAIN f}

Entries(file) == file.index.entries

\* an entry without its two title fields
NonTitle(e) == [e EXCEPT !.customTitle = None, !.titledAt = None]

\* this step is the write of processIndexFile
WriteStep == hist'.writes = hist.writes + 1

\* customTitle present, titledAt absent
Legacy(e) == e.customTitle.has /\ ~e.titledAt.has

\* customTitle present and not the empty string, titledAt absent
LegacyTitle(e) == Legacy(e) /\ e.customTitle.val # << >>

\* a step leaves the entries that are L as they are, on disk and in memory,
\* and no call of generateTitle is made for one
LegacyKept(L(_)) ==
    /\ \A p \in Projects : \A i \in 1..Len(Entries(disk[p])) :
          L(Entries(disk[p])[i]) =>
              /\ i <= Len(Entries(disk'[p]))
              /\ Entries(disk'[p])[i] = Entries(disk[p])[i]
    /\ pc = "await" =>
          \A i \in 1..Len(index.entries) :
              L(index.entries[i]) => index'.entries[i] = index.entries[i]
    /\ pc' = "await" => ~L(index'.entries[toProcess'[candIdx']])

\* C3 as stated: an entry with customTitle set and no titledAt keeps its
\* customTitle, never gets a titledAt, and no model call is made for it.
C3_Original == [][LegacyKept(Legacy)]_vars

\* C3 amended: an entry with a non-empty customTitle and no titledAt keeps
\* its customTitle, never gets a titledAt, and no model call is made for
\* it, in any sequence of runs.
C3_LegacyKept == [][LegacyKept(LegacyTitle)]_vars

\* a live run has rewritten an index file that holds a legacy title on an
\* entry with enough messages and a good prompt
C3_Witness ==
    \E p \in Projects :
        /\ disk[p].fmt = "pretty"
        /\ \E i \in 1..Len(Entries(disk[p])) :
              LET e == Entries(disk[p])[i] IN
              /\ LegacyTitle(e)
              /\ e.messageCount >= MinMessages
              /\ PromptOk(e)

\* C4: in a dry run no call of generateTitle is made or in flight, no
\* entry is mutated, nothing is counted as updated, no index file is
\* written, and the total reported is 0.
C4_DryRun ==
    /\ [](dryRun =>
            /\ hist.calls = 0
            /\ pc # "await"
            /\ index = readSnap
            /\ updatedCount = 0
            /\ totalUpdated = 0
            /\ hist.writes = 0
            /\ pc = "done" => reported = Some(0))
    /\ [][dryRun' => disk' = disk]_vars

\* a dry run is over that met a candidate with an excerpt
C4_Witness ==
    /\ dryRun
    /\ pc = "done"
    /\ reported = Some(0)
    /\ \E p \in Projects : \E i \in 1..Len(Entries(disk[p])) :
          ProcessSessionStart(Entries(disk[p])[i], TRUE).kind = "dry"

\* every entry that has titledAt has customTitle
TitledHasTitle(entries) ==
    \A i \in 1..Len(entries) : entries[i].titledAt.has => entries[i].customTitle.has

\* the only step that changes a title field of an entry in memory is the
\* update, which sets both: customTitle to the title just generated and
\* titledAt to the time just read
TitleAndTimeTogether ==
    pc = "await" =>
        \A i \in 1..Len(index.entries) :
            LET old == index.entries[i]
                new == index'.entries[i]
            IN  \/ /\ new = old
                   /\ (i = toProcess[candIdx] => updatedCount' = updatedCount)
                \/ /\ i = toProcess[candIdx]
                   /\ updatedCount' = updatedCount + 1
                   /\ NonTitle(new) = NonTitle(old)
                   /\ new.customTitle.has
                   /\ new.customTitle.val # << >>
                   /\ \E r \in Responses :
                         new.customTitle = GenerateTitle(inflight.val, r)
                   /\ new.titledAt = Some(Iso(clock'))

\* C5: titledAt is set in exactly the step that sets customTitle to a
\* generated title; every entry with titledAt has customTitle, on disk and
\* in memory, in every reachable state.
C5_TitledTogether ==
    /\ [](/\ TitledHasTitle(index.entries)
          /\ \A p \in Projects : TitledHasTitle(Entries(disk[p])))
    /\ [][TitleAndTimeTogether]_vars

\* an entry has just been given a title and the time of it
C5_Witness ==
    /\ hist.last = "updated"
    /\ candIdx > 1
    /\ index.entries[toProcess[candIdx - 1]].titledAt = Some(Iso(clock))
    /\ index.entries[toProcess[candIdx - 1]].customTitle.has

\* generateTitle returned null: the entry and the count stay, and the entry
\* still passes the filter
NullLeavesEntry ==
    (pc = "await" /\ hist'.last = "null") =>
        /\ index' = index
        /\ updatedCount' = updatedCount
        /\ toProcess[candIdx] \notin hist'.updated
        /\ ShouldProcessSession(index'.entries[toProcess[candIdx]])

\* the file written holds the entries that got null as they were read
NullWrittenAsRead ==
    WriteStep =>
        \A i \in 1..Len(readSnap.entries) :
            << CurrentDir, readSnap.entries[i].sessionId >> \in hist.nulls =>
                /\ i <= Len(Entries(disk'[CurrentDir]))
                /\ Entries(disk'[CurrentDir])[i] = readSnap.entries[i]

\* the entries that got null in the run before are candidates of this run
NullRetried ==
    pc = "cands" =>
        \A i \in 1..Len(readSnap.entries) :
            << CurrentDir, readSnap.entries[i].sessionId >> \in hist.prevNulls
                => i \in Range(toProcess)

\* C6: when generateTitle returns null in live mode the entry keeps its
\* customTitle and titledAt, in memory and in the file the run writes, it is
\* not counted as updated, and the next run selects it as a candidate.
C6_NullUntouched ==
    /\ []NullRetried
    /\ [][NullLeavesEntry /\ NullWrittenAsRead]_vars

\* the run after one in which an entry got null has read that entry again
C6_Witness ==
    /\ pc = "cands"
    /\ \E i \in 1..Len(readSnap.entries) :
          /\ << CurrentDir, readSnap.entries[i].sessionId >> \in hist.prevNulls
          /\ i \in Range(toProcess)

SameButTitle(a, b) == NonTitle(a) = NonTitle(b)

\* C7: the index written has the version, the number of entries and the
\* entry order of the content read, and differs from it only in customTitle
\* and titledAt of the entries counted as updated.
C7_WriteFrame ==
    [][WriteStep =>
        LET written == disk'[CurrentDir] IN
        /\ written.kind = "json"
        /\ written.index.version = readSnap.version
        /\ Len(Entries(written)) = Len(readSnap.entries)
        /\ Cardinality(hist.updated) = updatedCount
        /\ \A i \in 1..Len(readSnap.entries) :
              /\ SameButTitle(Entries(written)[i], readSnap.entries[i])
              /\ i \notin hist.updated =>
                    Entries(written)[i] = readSnap.entries[i]]_vars

\* a file has been written that holds an entry that was no candidate, a
\* candidate that was not updated, and an updated one
C7_Witness ==
    /\ hist.last = "write"
    /\ \E i \in 1..Len(readSnap.entries) : i \notin Range(toProcess)
    /\ \E i \in Range(toProcess) : i \notin hist.updated
    /\ hist.updated # {}

\* C8 as stated: a failure to read or parse an index file does not end the
\* run; the later index files are processed and the run completes.
C8_Original == hist.cause = "index" => pc # "crashed"

\* C9 as stated: no failure in one session ends the run, whatever the
\* session log holds.
C9_Original == hist.cause = "session" => pc # "crashed"

\* what the file held right before the write is still there after it,
\* apart from the title fields
NothingLost ==
    \A i \in 1..Len(Entries(disk[CurrentDir])) :
        /\ i <= Len(Entries(disk'[CurrentDir]))
        /\ SameButTitle(Entries(disk'[CurrentDir])[i],
                        Entries(disk[CurrentDir])[i])

\* C10 as stated: a write loses no entry and no field change that another
\* writer made between the run's read and the write.
C10_Original == [][WriteStep => NothingLost]_vars

\* C10 amended: the write puts back every entry and every field value the
\* run read, apart from its own titles, so it loses nothing when the file
\* did not change since the read; what another writer changed in between is
\* overwritten.
C10_ReadWrittenBack ==
    [][WriteStep =>
        /\ \A i \in 1..Len(readSnap.entries) :
              /\ i <= Len(Entries(disk'[CurrentDir]))
              /\ SameButTitle(Entries(disk'[CurrentDir])[i],
                              readSnap.entries[i])
        /\ disk[CurrentDir].index = readSnap => NothingLost]_vars

\* a run has written a file that the assistant had changed since the run
\* read it
C10_Witness == hist.last = "write" /\ hist.raced

(***************************************************************************)
(* generateTitle applied to one answer of the endpoint                     *)
(***************************************************************************)
TitleMaxLen == 3        \* longest content and reasoning_content tried

\* every string over the alphabet of at most n characters
Strings(alphabet, n) == UNION { [1..k -> alphabet] : k \in 0..n }

TitleFields ==
    { None, NotAString }
    \cup { Some(s) : s \in Strings({" ", "\n", "A"}, TitleMaxLen) }

TitleResponses ==
    { NetError, HttpError, BadBody, NoChoice }
    \cup { Answer(c, r) : c \in TitleFields, r \in TitleFields }

InitTitle ==
    /\ call \in { [op |-> "arg", arg |-> r, ret |-> None] : r \in TitleResponses }
    /\ RunIdle(SharedFiles)

CallGenerateTitle ==
    /\ call.op = "arg"
    /\ call' = [call EXCEPT !.op = "generateTitle",
                            !.ret = GenerateTitle(Hi, call.arg)]
    /\ UNCHANGED runVars

NextTitle == CallGenerateTitle

SpecTitle == InitTitle /\ [][NextTitle]_vars

\* t is s without the white space at its two ends
IsTrimOf(t, s) ==
    \E i \in 1..(Len(s) + 1), j \in 0..Len(s) :
        /\ t = SubSeq(s, i, j)
        /\ \A k \in 1..(i - 1) : s[k] \in WhiteSpace
        /\ \A k \in (j + 1)..Len(s) : s[k] \in WhiteSpace
        /\ t # << >> => (t[1] \notin WhiteSpace /\ t[Len(t)] \notin WhiteSpace)

\* the field is a string with something else than white space in it
HasText(o) == o.has /\ IsString(o) /\ \E k \in 1..Len(o.val) : o.val[k] \notin WhiteSpace

\* the field is absent, or a string of white space only
NoText(o) == ~o.has \/ (IsString(o) /\ ~HasText(o))

\* C11: generateTitle always returns; the result is null when the
\* transport fails, the status is no success, the body cannot be decoded,
\* or a field consulted is no string; otherwise it is content trimmed when
\* that is non-empty, else reasoning_content trimmed when that is non-empty,
\* else null. A result that is not null is a non-empty string without white
\* space at either end.
C11_GenerateTitle ==
    call.op = "generateTitle" =>
        LET a == call.arg
            ret == call.ret
        IN  /\ ret.has =>
                  /\ ret.val # << >>
                  /\ ret.val[1] \notin WhiteSpace
                  /\ ret.val[Len(ret.val)] \notin WhiteSpace
            /\ a.r # "answer" => ret = None
            /\ a.r = "answer" =>
                  IF HasText(a.content)
                  THEN ret.has /\ IsTrimOf(ret.val, a.content.val)
                  ELSE IF NoText(a.content) /\ HasText(a.reasoning)
                  THEN ret.has /\ IsTrimOf(ret.val, a.reasoning.val)
                  ELSE ret = None

\* content was white space only and the title came from reasoning_content,
\* which had white space at both ends
C11_Witness ==
    /\ call.op = "generateTitle"
    /\ call.arg.r = "answer"
    /\ call.arg.content = Some(<< " ", "\n" >>)
    /\ call.arg.reasoning = Some(<< " ", "A", "\n" >>)
    /\ call.ret = Some(<< "A" >>)

(***************************************************************************)
(* Discovery                                                               *)
(***************************************************************************)
\* the projects directory cannot be read: once a run has started the error
\* is reported and no index file is found, so no file is read, no call is
\* made, nothing is written, the run cannot throw, the only step left to
\* it is its last line, and that reports 0
RootUnreadable ==
    (projectsDir = "unreadable" /\ pc # "idle") =>
        /\ hist.cause = "root"
        /\ indexFiles = << >>
        /\ pc \in {"files", "done"}
        /\ pc = "files" => fileIdx > Len(indexFiles)
        /\ hist.calls = 0
        /\ hist.writes = 0
        /\ inflight = None
        /\ pc = "done" => reported = Some(0)

\* under a readable projects directory the folders found are those with an
\* index file, in readdir order, and a folder without one raises nothing
MissingIndexSkipped ==
    (projectsDir = "readable" /\ pc # "idle") =>
        /\ Range(indexFiles) = {p \in Projects : disk[p].kind # "nofile"}
        /\ hist.cause = "index" => disk[CurrentDir].kind = "garbage"

\* C12: if the projects directory cannot be read, discovery reports the
\* error and finds no index file, and the run completes reporting 0 with no
\* call and no write; a project folder without an index file is skipped
\* without error.
C12_UnreadableRoot ==
    /\ [](RootUnreadable /\ MissingIndexSkipped)
    /\ [][projectsDir = "unreadable" => disk' = disk]_vars

\* a live run under an unreadable projects directory is over, with an
\* index file on disk that holds a session to title and a folder that has
\* no index file
C12_Witness ==
    /\ projectsDir = "unreadable"
    /\ pc = "done"
    /\ ~dryRun
    /\ reported = Some(0)
    /\ disk[ProjectDirs[1]] = MixedFile
    /\ disk[ProjectDirs[2]] = NoFile

(***************************************************************************)
(* prepareConversationText applied to one conversation                     *)
(***************************************************************************)
ExcerptMaxLines == 3    \* longest conversation tried

ExcerptMaxChars == 8    \* largest maxChars tried

ExcerptMaxNum == 4      \* largest numMessages tried

\* lines of different lengths, so that every cut falls somewhere else
ExcerptLines == { << "a" >>, << "b", "c" >>, << "d", "e", "f" >> }

ExcerptArgs ==
    { [conversation |-> c, maxChars |-> m, numMessages |-> n] :
        c \in Strings(ExcerptLines, ExcerptMaxLines),
        m \in 0..ExcerptMaxChars,
        n \in 0..ExcerptMaxNum }

InitExcerpt ==
    /\ call \in { [op |-> "arg", arg |-> a, ret |-> << >>] : a \in ExcerptArgs }
    /\ RunIdle(SharedFiles)

CallPrepareConversationText ==
    /\ call.op = "arg"
    /\ call' = [call EXCEPT
                  !.op = "prepareConversationText",
                  !.ret = PrepareConversationText(call.arg.conversation,
                                                  call.arg.maxChars,
                                                  call.arg.numMessages)]
    /\ UNCHANGED runVars

NextExcerpt == CallPrepareConversationText

SpecExcerpt == InitExcerpt /\ [][NextExcerpt]_vars

\* the last min(n, Len(c)) entries of c, in order
LastN(c, n) == SubSeq(c, Len(c) - Min(n, Len(c)) + 1, Len(c))

\* s is the lines of ls with one newline between neighbours
IsJoinOf(s, ls) ==
    /\ Len(s) = (IF ls = << >> THEN 0 ELSE Len(ls) - 1)
                 + (LET RECURSIVE Total(_)
                        Total(i) == IF i = 0 THEN 0 ELSE Len(ls[i]) + Total(i - 1)
                    IN  Total(Len(ls)))
    /\ \A i \in 1..Len(ls) :
          LET RECURSIVE Before(_)
              Before(k) == IF k = 0 THEN 0 ELSE Len(ls[k]) + 1 + Before(k - 1)
              at == Before(i - 1)
          IN  /\ SubSeq(s, at + 1, at + Len(ls[i])) = ls[i]
              /\ i < Len(ls) => s[at + Len(ls[i]) + 1] = "\n"

\* C13 as stated: the result is built from exactly the last
\* min(numMessages, len) entries joined by newline, for every numMessages
\* >= 0 (nothing is kept when numMessages is 0), and is that join unchanged
\* when the join does not exceed maxChars.
C13_Original ==
    call.op = "prepareConversationText" =>
        LET kept == LastN(call.arg.conversation, call.arg.numMessages)
            joined == Join(kept)
        IN  /\ IsJoinOf(joined, kept)
            /\ Len(joined) <= call.arg.maxChars => call.ret = joined
            /\ Len(joined) > call.arg.maxChars =>
                  \E k \in 0..Len(joined) :
                      call.ret = Ellipsis \o SliceFrom(joined, k)

\* C14 as stated: for every maxChars the result is at most maxChars long;
\* when the joined text is longer than maxChars the result is exactly
\* maxChars long, starts with "..." and ends with the last maxChars - 3
\* characters of the joined text.
C14_Original ==
    call.op = "prepareConversationText" =>
        LET joined == Join(LastN(call.arg.conversation, call.arg.numMessages))
            m == call.arg.maxChars
        IN  /\ Len(call.ret) <= m
            /\ Len(joined) > m =>
                  /\ Len(call.ret) = m
                  /\ SubSeq(call.ret, 1, 3) = Ellipsis
                  /\ SubSeq(call.ret, 4, m) =
                         SubSeq(joined, Len(joined) - (m - 3) + 1, Len(joined))

(***************************************************************************)
(* extractConversation applied to one list of messages                     *)
(***************************************************************************)
ExtractMaxMsgs == 3     \* longest list of messages tried

ExtractMaxBlocks == 3   \* most blocks in one assistant message

Ok == << "o", "k" >>

\* one character more than the slice keeps, white space first
LongUser == << " " >> \o [i \in 1..UserSlice |-> "x"]

LongAssistant == << " " >> \o [i \in 1..AssistantSlice |-> "y"]

ExtractBlocks ==
    { Block("tool_use", None), Block("tool_use", Some(Hi)),
      Block("text", None), Block("text", Some(<< " " >>)),
      Block("text", Some(Ok)), Block("text", Some(Hi)),
      Block("text", Some(LongAssistant)), Block("text", NotAString),
      NullBlock }

\* every shape of one message
ExtractSingles ==
    { Msg("user", c) :
        c \in { NoContent, NumContent, StrContent(<< >>), StrContent(<< " " >>),
                StrContent(<< " ", "\n" >>), StrContent(Hi),
                StrContent(<< " ", "h" >>), StrContent(LongUser),
                ArrContent(<< Block("text", Some(Hi)) >>) } }
    \cup { Msg("assistant", c) :
             c \in { NoContent, NumContent, StrContent(Hi) } }
    \cup { Msg("assistant", ArrContent(bs)) :
             bs \in Strings(ExtractBlocks, ExtractMaxBlocks) }
    \cup { Msg("summary", StrContent(Hi)),
           Msg("file-history-snapshot", NoContent), Unknown, NumLine, NullLine }

\* the messages that lists are made of; their lines differ
ExtractMessages ==
    { Msg("user", StrContent(Hi)), Msg("user", StrContent(<< " ", "h" >>)),
      Msg("user", StrContent(<< " " >>)), Msg("summary", StrContent(Hi)),
      Msg("assistant",
          ArrContent(<< Block("tool_use", None), Block("text", Some(Ok)) >>)),
      Msg("assistant", ArrContent(<< Block("tool_use", None) >>)),
      NullLine }

ExtractArgs ==
    { << m >> : m \in ExtractSingles }
    \cup Strings(ExtractMessages, ExtractMaxMsgs)

InitExtract ==
    /\ call \in { [op |-> "arg", arg |-> a, ret |-> Returned(<< >>)] :
                    a \in ExtractArgs }
    /\ RunIdle(SharedFiles)

CallExtractConversation ==
    /\ call.op = "arg"
    /\ call' = [call EXCEPT !.op = "extractConversation",
                            !.ret = ExtractConversation(call.arg)]
    /\ UNCHANGED runVars

NextExtract == CallExtractConversation

SpecExtract == InitExtract /\ [][NextExtract]_vars

\* the string holds something else than white space
HasInk(s) == \E k \in 1..Len(s) : s[k] \notin WhiteSpace

\* the first n characters of s
FirstN(s, n) == [i \in 1..(IF Len(s) < n THEN Len(s) ELSE n) |-> s[i]]

IsMessage(m, type) == m.j = "obj" /\ m.type = type

\* positions of the text blocks that hold text
TextBlocks(bs) ==
    { i \in 1..Len(bs) :
        /\ bs[i].j = "obj"
        /\ bs[i].type = "text"
        /\ bs[i].text.has
        /\ IsString(bs[i].text)
        /\ HasInk(bs[i].text.val) }

\* positions of what is no block: null, or a text block whose text is no
\* string
NoBlocks(bs) ==
    { i \in 1..Len(bs) :
        \/ bs[i].j = "null"
        \/ bs[i].type = "text" /\ ~IsString(bs[i].text) }

Least(S) == CHOOSE x \in S : \A y \in S : x <= y

UserText(m) ==
    IsMessage(m, "user") /\ m.content.k = "str" /\ HasInk(m.content.s)

AssistantText(m) ==
    /\ IsMessage(m, "assistant")
    /\ m.content.k = "arr"
    /\ TextBlocks(m.content.blocks) # {}

\* the element is no message (null), or the loop over the blocks of an
\* assistant message meets what is no block before it meets a text block
\* with text: the property read of it throws
IllTyped(m) ==
    \/ m.j = "null"
    \/ /\ IsMessage(m, "assistant")
       /\ m.content.k = "arr"
       /\ \E i \in NoBlocks(m.content.blocks) :
             \A k \in TextBlocks(m.content.blocks) : i < k

\* positions of the messages that have a line
Sources(msgs) ==
    { i \in 1..Len(msgs) : UserText(msgs[i]) \/ AssistantText(msgs[i]) }

\* the place in the result of the line of message i
Rank(msgs, i) == Cardinality({ k \in Sources(msgs) : k <= i })

\* the line of a message that has one
LineOf(m) ==
    IF m.type = "user" THEN UserPrefix \o FirstN(m.content.s, 300)
    ELSE AssistantPrefix
         \o FirstN(m.content.blocks[Least(TextBlocks(m.content.blocks))].text.val,
                   200)

\* the call returned the lines
Extracted == call.op = "extractConversation" /\ ~call.ret.threw

\* C15: extractConversation is an order-preserving filter-map: a message
\* whose type is neither "user" nor "assistant" has no line, every message
\* has at most one line, and the lines are in the order of their messages.
\* (It returns for every list whose elements are messages and blocks; for
\* an element that is null it throws, see C9.)
C15_FilterMap ==
    call.op = "extractConversation" =>
        LET msgs == call.arg
            lines == call.ret.lines
        IN  /\ call.ret.threw <=> \E i \in 1..Len(msgs) : IllTyped(msgs[i])
            /\ ~call.ret.threw =>
                  /\ Len(lines) = Cardinality(Sources(msgs))
                  /\ \A i \in Sources(msgs) :
                        /\ msgs[i].type \in {"user", "assistant"}
                        /\ lines[Rank(msgs, i)] = LineOf(msgs[i])

\* three messages gave two lines, the first and the last one's, with a
\* message of another type between them
C15_Witness ==
    /\ Extracted
    /\ Len(call.arg) = 3
    /\ Sources(call.arg) = {1, 3}
    /\ call.arg[1].type = "assistant"
    /\ call.arg[2].type = "summary"
    /\ call.arg[3].type = "user"
    /\ Len(call.ret.lines) = 2
    /\ FirstN(call.ret.lines[1], 11) = AssistantPrefix
    /\ FirstN(call.ret.lines[2], 6) = UserPrefix

\* C16: a user message whose content is a string with something else than
\* white space in it has exactly one line, "User: " followed by the first
\* 300 characters of the content as they are; a user message whose content
\* is an empty or all-white-space string, or no string, or that has no
\* message field, has none.
C16_UserLine ==
    Extracted =>
        \A i \in 1..Len(call.arg) :
            IsMessage(call.arg[i], "user") =>
                LET c == call.arg[i].content IN
                IF c.k = "str" /\ HasInk(c.s)
                THEN /\ i \in Sources(call.arg)
                     /\ call.ret.lines[Rank(call.arg, i)]
                            = UserPrefix \o FirstN(c.s, 300)
                ELSE /\ i \notin Sources(call.arg)
                     /\ Len(call.arg) = 1 => call.ret.lines = << >>

\* a content of 301 characters that starts with white space was cut to its
\* first 300 characters, the white space kept
C16_Witness ==
    /\ Extracted
    /\ call.arg = << Msg("user", StrContent(LongUser)) >>
    /\ Len(call.ret.lines) = 1
    /\ Len(call.ret.lines[1]) = 306
    /\ call.ret.lines[1][7] = " "
    /\ call.ret.lines[1][306] = "x"

\* C17: an assistant message has at most one line: when its content is a
\* sequence of blocks, "Assistant: " followed by the first 200 characters of
\* the text of the first block of type "text" whose text is non-empty after
\* trimming, whatever blocks come before and after it; none when there is no
\* such block or the content is no sequence.
C17_AssistantLine ==
    Extracted =>
        \A i \in 1..Len(call.arg) :
            IsMessage(call.arg[i], "assistant") =>
                LET c == call.arg[i].content IN
                IF c.k = "arr" /\ TextBlocks(c.blocks) # {}
                THEN /\ i \in Sources(call.arg)
                     /\ call.ret.lines[Rank(call.arg, i)]
                            = AssistantPrefix
                              \o FirstN(c.blocks[Least(TextBlocks(c.blocks))].text.val,
                                        200)
                     /\ Len(call.arg) = 1 => Len(call.ret.lines) = 1
                ELSE /\ i \notin Sources(call.arg)
                     /\ Len(call.arg) = 1 => call.ret.lines = << >>

\* after a block of another type, a text of 201 characters was cut to 200,
\* and the text block after it was ignored
C17_Witness ==
    /\ Extracted
    /\ Len(call.arg) = 1
    /\ IsMessage(call.arg[1], "assistant")
    /\ call.arg[1].content.k = "arr"
    /\ call.arg[1].content.blocks
          = << Block("tool_use", None), Block("text", Some(LongAssistant)),
               Block("text", Some(Hi)) >>
    /\ call.ret.lines = << AssistantPrefix \o FirstN(LongAssistant, 200) >>

(***************************************************************************)
(* loadSessionMessages applied to one file                                 *)
(***************************************************************************)
LoadMaxLines == 3       \* most lines in the file

\* a line by what it holds: white space only, text that is no JSON, or a
\* JSON value
LoadLines ==
    { BlankLine, BadLine, NullLine, NumLine, Msg("user", StrContent(Hi)) }

\* the file is missing or unreadable, or holds these lines
LoadFiles == { NoLog } \cup { Log(ls) : ls \in Strings(LoadLines, LoadMaxLines) }

InitLoad ==
    /\ call \in { [op |-> "arg", arg |-> f, ret |-> << >>] : f \in LoadFiles }
    /\ RunIdle(SharedFiles)

CallLoadSessionMessages ==
    /\ call.op = "arg"
    /\ call' = [call EXCEPT !.op = "loadSessionMessages",
                            !.ret = LoadSessionMessages(call.arg)]
    /\ UNCHANGED runVars

NextLoad == CallLoadSessionMessages

SpecLoad == InitLoad /\ [][NextLoad]_vars

\* positions of the lines that hold more than white space
InkLines(ls) == { i \in 1..Len(ls) : ls[i].j # "blank" }

Greatest(S) == CHOOSE x \in S : \A y \in S : x >= y

\* C18: loadSessionMessages always returns: the empty list for a file that
\* is missing or unreadable, otherwise one record per line of the trimmed
\* content, in line order, the parsed value for a line that parses and
\* {type: "unknown"} for one that does not; an empty file (and one of white
\* space only) gives exactly one unknown record.
C18_LoadMessages ==
    call.op = "loadSessionMessages" =>
        LET file == call.arg
            ink == InkLines(file.lines)
        IN  IF ~file.exists THEN call.ret = << >>
            ELSE IF ink = {} THEN call.ret = << Unknown >>
            ELSE LET first == Least(ink)
                     last == Greatest(ink)
                 IN  /\ Len(call.ret) = last - first + 1
                     /\ \A k \in 1..Len(call.ret) :
                           LET line == file.lines[first + k - 1] IN
                           IF line.j \in {"bad", "blank"}
                           THEN call.ret[k] = [j |-> "obj", type |-> "unknown",
                                               content |-> NoContent]
                           ELSE call.ret[k] = line

\* a file of a message, a line that is no JSON and an empty last line gave
\* the message and one unknown record
C18_Witness ==
    /\ call.op = "loadSessionMessages"
    /\ call.arg = Log(<< Msg("user", StrContent(Hi)), BadLine, BlankLine >>)
    /\ call.ret = << Msg("user", StrContent(Hi)), Unknown >>

(***************************************************************************)
(* The session picker: parseSessionsFromDir                                *)
(***************************************************************************)
PickerMaxEntries == 2   \* most entries in the index file of the first folder

PickerMaxTime == 1      \* last instant of the modified timestamps tried

\* the folder of project /u/p-a and the folder of project /u/b
FolderPA == << "-", "u", "-", "p", "-", "a" >>

FolderB == << "-", "u", "-", "b" >>

PathPA == << "/", "u", "/", "p", "-", "a" >>

PathB == << "/", "u", "/", "b" >>

\* folderName.replace(/^-/, "/")
ReplaceLeadingDash(s) ==
    IF s # << >> /\ Head(s) = "-" THEN << "/" >> \o Tail(s) ELSE s

\* s.replace(/-/g, "/")
ReplaceEveryDash(s) == [i \in 1..Len(s) |-> IF s[i] = "-" THEN "/" ELSE s[i]]

FolderNameToPath(folderName) ==
    ReplaceEveryDash(ReplaceLeadingDash(folderName))

PickerEntry(id, path, modified, title) ==
    [Entry(id, Hi, 3, modified, title, None, "chat") EXCEPT !.projectPath = path]

PickerEntries ==
    { PickerEntry("plain", PathPA, Iso(t), None) : t \in 0..PickerMaxTime }
    \cup { PickerEntry("titled", PathPA, Iso(0), Some(Old)),
           PickerEntry("blank", PathPA, Iso(0), Some(<< >>)),
           PickerEntry("junk", PathPA, JunkDate, None) }

\* what the projects directory holds, in readdirSync order: folder /u/b
\* with one of three index files, folder /u/p-a with any
PickerArgs ==
    { [exists |-> x,
       dirs |-> << [name |-> FolderB, file |-> fb],
                   [name |-> FolderPA, file |-> fpa] >>] :
        x \in BOOLEAN,
        fb \in { NoFile, GarbageFile,
                 JsonFile("compact",
                     Index(<< PickerEntry("b", PathB, Iso(0), Some(Old)) >>)) },
        fpa \in { NoFile, GarbageFile }
                \cup { JsonFile("compact", Index(es)) :
                         es \in Strings(PickerEntries, PickerMaxEntries) } }

\* the Session pushed for one entry; the two copies of parseSessionsFromDir
\* in the source differ in cwd
SessionOf(dir, entry, copy) ==
    [id |-> entry.sessionId,
     title |-> IF TruthyOpt(entry.customTitle)
               THEN entry.customTitle.val ELSE entry.firstPrompt,
     firstMessage |-> entry.firstPrompt,
     project |-> entry.projectPath,
     cwd |-> IF copy = 1 THEN FolderNameToPath(dir) ELSE entry.projectPath,
     timestamp |-> GetTime(entry.modified),
     messageCount |-> entry.messageCount]

\* the loop over the project folders: a folder without an index file is
\* passed over, one whose file does not parse is skipped by the catch
RECURSIVE CollectSessions(_, _)
CollectSessions(dirs, copy) ==
    IF dirs = << >> THEN << >>
    ELSE LET d == Head(dirs)
             entries == d.file.index.entries
             own == IF d.file.kind # "json" THEN << >>
                    ELSE [i \in 1..Len(entries) |->
                             SessionOf(d.name, entries[i], copy)]
         IN  own \o CollectSessions(Tail(dirs), copy)

\* the comparator (a, b) => b.timestamp - a.timestamp gives 0 or NaN, which
\* sort takes for 0
ComparesEqual(a, b) ==
    a.timestamp.nan \/ b.timestamp.nan \/ a.timestamp.v = b.timestamp.v

\* s put into the sorted list ss behind everything that is not older
RECURSIVE InsertSession(_, _)
InsertSession(ss, s) ==
    IF ss = << >> THEN << s >>
    ELSE IF NumGt(s.timestamp, Head(ss).timestamp) THEN << s >> \o ss
    ELSE << Head(ss) >> \o InsertSession(Tail(ss), s)

SortSessions_Unsorted(ss) == ss

\* the stable sort, newest first
RECURSIVE SortSessions(_)
SortSessions(ss) ==
    IF ss = << >> THEN << >>
    ELSE InsertSession(SortSessions(SubSeq(ss, 1, Len(ss) - 1)), ss[Len(ss)])

Orderings(ss) ==
    { [i \in 1..Len(ss) |-> ss[p[i]]] :
        p \in { q \in [1..Len(ss) -> 1..Len(ss)] :
                  \A i, k \in 1..Len(ss) : i # k => q[i] # q[k] } }

\* sessions.sort(comparator): the stable sort when the comparator is
\* consistent; with a timestamp that is NaN among different ones it is not,
\* and the order is whatever the engine's sort makes of it
SortResults(ss) ==
    IF \A i, k \in 1..Len(ss) : ComparesEqual(ss[i], ss[k]) THEN { ss }
    ELSE IF \A i \in 1..Len(ss) : ~ss[i].timestamp.nan
         THEN { SortSessions(ss) }
    ELSE Orderings(ss)

\* parseSessionsFromDir, first or second copy: the lists it can return
ParseSessionsFromDir(arg, copy) ==
    IF ~arg.exists THEN { << >> }
    ELSE SortResults(CollectSessions(arg.dirs, copy))

InitPicker ==
    /\ call \in { [op |-> "arg", arg |-> a, copy |-> 0, ret |-> << >>] :
                    a \in PickerArgs }
    /\ RunIdle(SharedFiles)

CallParseSessionsFromDir(copy) ==
    /\ call.op = "arg"
    /\ \E r \in ParseSessionsFromDir(call.arg, copy) :
          call' = [call EXCEPT !.op = "parseSessionsFromDir",
                               !.copy = copy, !.ret = r]
    /\ UNCHANGED runVars

NextPicker == \E copy \in {1, 2} : CallParseSessionsFromDir(copy)

SpecPicker == InitPicker /\ [][NextPicker]_vars

\* the entries of the index files that parse, folder after folder; none
\* when the directory does not exist
RECURSIVE EntriesUnder(_)
EntriesUnder(dirs) ==
    IF dirs = << >> THEN << >>
    ELSE (IF Head(dirs).file.kind = "json"
          THEN Head(dirs).file.index.entries ELSE << >>)
         \o EntriesUnder(Tail(dirs))

Listed(arg) == IF arg.exists THEN EntriesUnder(arg.dirs) ELSE << >>

Count(seq, x) == Cardinality({ i \in 1..Len(seq) : seq[i] = x })

\* what the claim says of the session of an entry, under a rule T for the
\* title
Row(e, T(_)) ==
    [id |-> e.sessionId, title |-> T(e), timestamp |-> GetTime(e.modified)]

RowOf(s) == [id |-> s.id, title |-> s.title, timestamp |-> s.timestamp]

\* the list returned has one session per entry listed, titled by rule T
OnePerEntry(T(_)) ==
    LET es == Listed(call.arg)
        want == [i \in 1..Len(es) |-> Row(es[i], T)]
        got == [i \in 1..Len(call.ret) |-> RowOf(call.ret[i])]
    IN  /\ Len(got) = Len(want)
        /\ \A i \in 1..Len(want) : Count(got, want[i]) = Count(want, want[i])

\* no session is followed by a newer one
NewestFirst ==
    \A i, k \in 1..Len(call.ret) :
        i < k => ~NumGt(call.ret[k].timestamp, call.ret[i].timestamp)

TitleWhenSet(e) ==
    IF e.customTitle.has THEN e.customTitle.val ELSE e.firstPrompt

TitleWhenNonEmpty(e) ==
    IF e.customTitle.has /\ e.customTitle.val # << >>
    THEN e.customTitle.val ELSE e.firstPrompt

AllDated(arg) ==
    \A i \in 1..Len(Listed(arg)) : Listed(arg)[i].modified.kind = "iso"

\* C19 as stated: one session per entry of every index file that parses,
\* ordered by modified descending, titled customTitle when that is set and
\* firstPrompt otherwise; nothing for a file that is absent or no JSON, and
\* the empty list for a directory that does not exist.
C19_Original ==
    call.op = "parseSessionsFromDir" =>
        /\ OnePerEntry(TitleWhenSet)
        /\ NewestFirst

\* C19 amended: one session per entry of every index file that parses,
\* ordered by modified descending when every modified is a date (in an
\* unspecified order otherwise), titled customTitle when that is set and
\* not the empty string and firstPrompt otherwise; nothing for a file that
\* is absent or no JSON, and the empty list for a directory that does not
\* exist.
C19_Sessions ==
    call.op = "parseSessionsFromDir" =>
        /\ OnePerEntry(TitleWhenNonEmpty)
        /\ AllDated(call.arg) =>
              \A i, k \in 1..Len(call.ret) :
                  i < k => call.ret[i].timestamp.v >= call.ret[k].timestamp.v
        /\ ~call.arg.exists => call.ret = << >>

\* three sessions of two folders came back in another order than they were
\* read in, one titled by its customTitle and one, whose customTitle is the
\* empty string, by its firstPrompt
C19_Witness ==
    /\ call.op = "parseSessionsFromDir"
    /\ AllDated(call.arg)
    /\ Len(call.ret) = 3
    /\ Listed(call.arg)[3].sessionId = "plain"
    /\ call.ret[1].id = "plain"
    /\ call.ret[1].timestamp.v > call.ret[2].timestamp.v
    /\ call.ret[2].id = "b"
    /\ call.ret[2].title = Old
    /\ call.ret[3].id = "blank"
    /\ call.ret[3].title = Hi

\* every "-" of the folder name replaced by "/"
Slashed(name) == [i \in DOMAIN name |-> IF name[i] = "-" THEN "/" ELSE name[i]]

\* C20 as stated: every session returned has cwd derived from the name of
\* its project folder by folderNameToPath, not taken from projectPath, and
\* project equal to the entry's projectPath.
C20_Original ==
    call.op = "parseSessionsFromDir" =>
        \A i \in 1..Len(call.ret) :
            \E d \in 1..Len(call.arg.dirs) :
                LET dir == call.arg.dirs[d] IN
                /\ dir.file.kind = "json"
                /\ \E k \in 1..Len(dir.file.index.entries) :
                      /\ dir.file.index.entries[k].sessionId = call.ret[i].id
                      /\ call.ret[i].project
                            = dir.file.index.entries[k].projectPath
                /\ call.ret[i].cwd = Slashed(dir.name)

(***************************************************************************)
(* One pass over the index files: writes, ordering, calls                  *)
(***************************************************************************)
\* the folders of the run whose index file the loop of runOnce has left
Finished == { indexFiles[i] : i \in 1..Min(fileIdx - 1, Len(indexFiles)) }

InRun == hist.runs > 0

\* no step but the write at the end of processIndexFile changes a file, and
\* that write changes the file of the current folder alone
OnlyWriteChangesDisk ==
    \A p \in Projects :
        disk'[p] # disk[p] => WriteStep /\ pc = "cands" /\ p = CurrentDir

\* the write is made in live mode, after an update, when every candidate
\* of the file has been processed and no call is in flight, to a file not
\* written before in this run; the file is then finished
WriteAtEndOfFile ==
    WriteStep =>
        /\ ~dryRun
        /\ updatedCount > 0
        /\ hist.updated # {}
        /\ candIdx = Len(toProcess) + 1
        /\ ~inflight.has
        /\ CurrentDir \notin hist.written
        /\ hist'.written = hist.written \cup {CurrentDir}
        /\ disk'[CurrentDir] # disk[CurrentDir]
        /\ fileIdx' = fileIdx + 1

\* within the run a written file keeps what was written
WrittenKept ==
    \A p \in Projects :
        (p \in hist.written /\ hist'.runs = hist.runs) => disk'[p] = disk[p]

\* the files written in the run are files the run has finished, one write
\* each; the file the run is at is not written yet and is on disk as the
\* run read it, whatever the run has done to its entries in memory
UnwrittenAsBefore ==
    InRun =>
        /\ hist.written \subseteq Finished
        /\ hist.writes = Cardinality(hist.written)
        /\ pc \in {"cands", "await"} =>
              /\ CurrentDir \notin hist.written
              /\ disk[CurrentDir].index = readSnap

\* C21: within one run each index file is written at most once, only in
\* live mode, only after an update of one of its entries, and only after
\* its last candidate has been processed; no other step of the run changes
\* a file, so at every point before that write the file on disk holds its
\* content of before the run, while the files already written keep their
\* updates.
C21_WriteOnce ==
    /\ []UnwrittenAsBefore
    /\ [][OnlyWriteChangesDisk /\ WriteAtEndOfFile /\ WrittenKept]_vars

\* the first file has been written; an entry of the second file has been
\* titled in memory and a further call is in flight, and the second file on
\* disk is as it was read
C21_Witness ==
    /\ Len(indexFiles) = 2
    /\ fileIdx = 2
    /\ hist.written = {indexFiles[1]}
    /\ hist.writes = 1
    /\ pc = "await"
    /\ updatedCount > 0
    /\ index # disk[indexFiles[2]].index
    /\ disk[indexFiles[2]].index = readSnap

\* a call of generateTitle begins
CallStep == hist'.calls = hist.calls + 1

\* the loop of processIndexFile moves to its next candidate
CandidateStep ==
    \/ pc = "cands" /\ pc' = "cands" /\ candIdx' # candIdx
    \/ pc = "await" /\ pc' = "cands"

\* readFile of an index file
ReadStep == pc = "files" /\ pc' \in {"cands", "crashed"}

\* calls begun and not settled: one while generateTitle is awaited, none
\* otherwise; the candidates are held in the order of the index
OneCallInFlight ==
    /\ hist.open \in {0, 1}
    /\ hist.open = 1 <=> pc = "await"
    /\ inflight.has <=> pc = "await"
    /\ \A i, j \in 1..Len(toProcess) : i < j => toProcess[i] < toProcess[j]
    /\ pc \in {"cands", "await"} => candIdx \in 1..(Len(toProcess) + 1)

\* a call begins when none is open, for the candidate the loop is at
CallWhenNoneOpen ==
    CallStep =>
        /\ hist.open = 0
        /\ hist'.open = 1
        /\ candIdx' = candIdx
        /\ hist'.called = hist.called \cup {<< CurrentDir, toProcess[candIdx] >>}

\* the loop advances by one candidate, and only when that candidate is
\* finished: updated, given up on a null title, or skipped
OneCandidateAtATime ==
    CandidateStep =>
        /\ candIdx' = candIdx + 1
        /\ hist'.open = 0
        /\ hist'.last \in {"updated", "null", "skip", "empty", "dry"}
        /\ hist'.last = "updated" <=> updatedCount' = updatedCount + 1

\* an index file is read when the files before it are finished: no call is
\* open, every candidate of the file before has been processed, and its
\* updates, if it had any in live mode, are on disk
FileAfterFile ==
    ReadStep =>
        /\ hist.open = 0
        /\ Finished = { indexFiles[i] : i \in 1..(fileIdx - 1) }
        /\ fileIdx > 1 =>
              /\ candIdx = Len(toProcess) + 1
              /\ hist.last \in {"write", "nowrite"}
              /\ (updatedCount > 0 /\ ~dryRun) =>
                    /\ hist.last = "write"
                    /\ indexFiles[fileIdx - 1] \in hist.written
                    /\ disk[indexFiles[fileIdx - 1]].index = index

\* C22: within one run at most one title-generation call is in flight at
\* any time: the candidates of an index file are processed one at a time in
\* index order, each finished (updated or skipped) before the next starts,
\* and an index file is finished, its write included, before the next index
\* file is read.
C22_Sequential ==
    /\ []OneCallInFlight
    /\ [][CallWhenNoneOpen /\ OneCandidateAtATime /\ FileAfterFile]_vars

\* in the second index file of a run the call for the second candidate is
\* in flight, after two calls made for the first file, which was written
C22_Witness ==
    /\ Len(indexFiles) = 2
    /\ fileIdx = 2
    /\ pc = "await"
    /\ hist.open = 1
    /\ candIdx = 2
    /\ hist.calls >= 4
    /\ indexFiles[1] \in hist.written

\* the entries of the index files of the run, by folder and position
RunEntries ==
    { << p, i >> : p \in Range(indexFiles), i \in 1..MaxEntries }

\* the calls of the run so far are calls for different entries, each an
\* entry of a file the run has read
CallsAreForDistinctEntries ==
    InRun =>
        /\ hist.calls = Cardinality(hist.called)
        /\ hist.called \subseteq RunEntries
        /\ \A c \in hist.called :
              c[1] \in { indexFiles[i] :
                            i \in 1..Min(fileIdx, Len(indexFiles)) }

\* a call is for an entry not called before in this run
NoSecondCall ==
    CallStep => << CurrentDir, toProcess[candIdx] >> \notin hist.called

\* when a call has settled, with a title or with null, the loop leaves the
\* entry for the rest of the run
SettledIsLeft ==
    (pc = "await" /\ pc' = "cands") =>
        /\ hist'.last \in {"updated", "null"}
        /\ << CurrentDir, toProcess[candIdx] >> \in hist'.called
        /\ candIdx' = candIdx + 1
        /\ \A j \in candIdx'..Len(toProcess) : toProcess[j] # toProcess[candIdx]

\* C23: there is no retry inside a run: for every entry of every index file
\* one run makes at most one title-generation call, whether that call
\* returns a title or null; an entry whose call returned null is called
\* again only by a later invocation of runOnce.
C23_NoRetry ==
    /\ []CallsAreForDistinctEntries
    /\ [][NoSecondCall /\ SettledIsLeft]_vars

\* in a second run the call for an entry that got null in the first run is
\* in flight, after an earlier call of this run has returned null as well
C23_Witness ==
    /\ hist.runs = 2
    /\ pc = "await"
    /\ << CurrentDir, index.entries[toProcess[candIdx]].sessionId >>
           \in hist.prevNulls
    /\ hist.nulls # {}
    /\ hist.calls = Cardinality(hist.called)
    /\ hist.calls >= 2

(***************************************************************************)
(* Run after run                                                           *)
(***************************************************************************)
\* the entry at position i of the folder's file was saved, as it now is, by
\* a live run that titled it
SavedAsIs(p, i, entry) == << p, i, entry >> \in hist.saved

\* an entry among those for which K holds is no candidate when its file is
\* read, no call is made for it, and no write comes of it
Settled(K(_)) ==
    /\ (ReadStep /\ pc' = "cands") =>
          \A i \in 1..Len(index'.entries) :
              (SavedAsIs(CurrentDir, i, index'.entries[i])
                  /\ K(index'.entries[i])) => i \notin Range(toProcess')
    /\ CallStep =>
          LET pos == toProcess[candIdx] IN
          ~(SavedAsIs(CurrentDir, pos, index.entries[pos])
              /\ K(index.entries[pos]))
    /\ WriteStep =>
          \A i \in hist.updated :
              ~(SavedAsIs(CurrentDir, i, readSnap.entries[i])
                  /\ K(readSnap.entries[i]))

AnyEntry(entry) == TRUE

OnDisk(p, i) == disk[p].kind = "json" /\ i <= Len(Entries(disk[p]))

Candidate(p, i) ==
    OnDisk(p, i) /\ ShouldProcessSession(Entries(disk[p])[i])

\* an eligible entry whose excerpt is not empty
CandidateWithText(p, i) ==
    /\ Candidate(p, i)
    /\ ProcessSessionStart(Entries(disk[p])[i], FALSE).kind = "call"

\* an eligible entry whose excerpt is empty
CandidateWithoutText(p, i) ==
    /\ Candidate(p, i)
    /\ ProcessSessionStart(Entries(disk[p])[i], FALSE).kind = "empty"

\* no call is open and the run, if one has begun, has made no call and no
\* write
Quiet == pc # "await" /\ hist.calls = 0 /\ hist.writes = 0

\* no eligible entry whose excerpt is not empty is left untitled
AllTitled ==
    \A p \in Projects, i \in 1..MaxEntries : ~CandidateWithText(p, i)

\* an eligible entry whose excerpt is empty stays on disk as it is, and so
\* stays an eligible entry whose excerpt is empty
EmptyStays ==
    \A p \in Projects, i \in 1..MaxEntries :
        CandidateWithoutText(p, i) =>
            /\ disk'[p].kind = "json"
            /\ i <= Len(Entries(disk'[p]))
            /\ Entries(disk'[p])[i] = Entries(disk[p])[i]

\* C25 as stated: with no external modification, every run terminating and
\* the endpoint in the end answering each candidate with a title, every
\* eligible entry whose excerpt is not empty is eventually titled, and from
\* some run on no run makes a model call or a write, while the eligible
\* entries whose excerpt is empty stay candidates for ever.
C25_Original ==
    /\ <>[](AllTitled /\ Quiet)
    /\ [][EmptyStays]_vars

====
